---- MODULE Spec2Model ----
(***************************************************************************)
(* A model of src/src/utility.py: the filename parser                      *)
(* extract_info_from_csvfilename, the reference data builder               *)
(* extract_maker_model_codes / write_cars_to_csv and the terminal quiz     *)
(* guess_car_brand.                                                        *)
(*                                                                         *)
(* Python strings are sequences of one-character strings, so that          *)
(* str.upper, str.strip, str.split, str.rfind, slicing and the substring   *)
(* test `in` are computed the way Python computes them.  random.sample is  *)
(* modelled as it behaves on the interpreters that accept a set as the     *)
(* population (Python up to 3.10).                                         *)
(***************************************************************************)
EXTENDS Integers, Sequences, FiniteSets, TLC

VARIABLES
    pc,                 \* position of the running function
    raised,             \* name of the unhandled exception, "" when none
    exit_status,        \* status passed to sys.exit, -1 while not exited
    notice,             \* last line printed by write_cars_to_csv
    csv_name,           \* extract_info_from_csvfilename: its argument
    car_info,           \* extract_info_from_csvfilename: its result
    data,               \* content of cars_com_make_model.json under 'all'
    csv_path,           \* csv_name of extract_maker_model_codes / write_cars_to_csv
    csv_rows,           \* csv_rows of extract_maker_model_codes
    caller,             \* who called extract_maker_model_codes
    fs,                 \* the files: path -> file
    fs0,                \* the files when the program started
    given_file,         \* the data_file argument guess_car_brand was called with
    data_file,          \* guess_car_brand: local data_file
    builder_calls,      \* number of calls of extract_maker_model_codes
    brands,             \* guess_car_brand: brands
    model_brand_pairs,  \* guess_car_brand: model_brand_pairs
    count,              \* guess_car_brand: count
    question_num,       \* guess_car_brand: question_num
    num_correct,        \* guess_car_brand: num_correct
    model,              \* guess_car_brand: model of the round
    brand,              \* guess_car_brand: brand of the round
    choices,            \* guess_car_brand: choices after the shuffle
    user_choice,        \* guess_car_brand: user_choice
    hits                \* rounds whose chosen letter mapped to the round's brand

vars == <<pc, raised, exit_status, notice, csv_name, car_info, data, csv_path,
          csv_rows, caller, fs, fs0, given_file, data_file, builder_calls,
          brands, model_brand_pairs, count, question_num, num_correct, model,
          brand, choices, user_choice, hits>>

fileVars == <<csv_name, car_info>>
buildVars == <<data, csv_path, csv_rows, caller, fs, fs0, notice, exit_status>>
quizVars == <<given_file, data_file, builder_calls, brands, model_brand_pairs,
              count, question_num, num_correct, model, brand, choices,
              user_choice, hits>>

-----------------------------------------------------------------------------
(* Python string operations *)

LowerAlpha == <<"a","b","c","d","e","f","g","h","i","j","k","l","m",
                "n","o","p","q","r","s","t","u","v","w","x","y","z">>
UpperAlpha == <<"A","B","C","D","E","F","G","H","I","J","K","L","M",
                "N","O","P","Q","R","S","T","U","V","W","X","Y","Z">>

UpperChar(c) ==
    IF \E i \in DOMAIN LowerAlpha : LowerAlpha[i] = c
    THEN UpperAlpha[CHOOSE i \in DOMAIN LowerAlpha : LowerAlpha[i] = c]
    ELSE c

\* str.upper()
Upper(s) == [i \in 1..Len(s) |-> UpperChar(s[i])]

\* c in s, for a one-character c
HasChar(s, c) == \E i \in 1..Len(s) : s[i] = c

\* s.rfind(c): the highest 0-based index of c, -1 when absent
RFind(s, c) ==
    IF HasChar(s, c)
    THEN (CHOOSE i \in 1..Len(s) :
              s[i] = c /\ \A j \in (i+1)..Len(s) : s[j] # c) - 1
    ELSE -1

\* a slice bound as Python clamps it
SliceIndex(i, n) ==
    IF i < 0 THEN (IF i + n < 0 THEN 0 ELSE i + n)
    ELSE (IF i > n THEN n ELSE i)

\* s[a:b]
Slice(s, a, b) ==
    LET lo == SliceIndex(a, Len(s))
        hi == SliceIndex(b, Len(s))
    IN IF lo >= hi THEN <<>> ELSE SubSeq(s, lo + 1, hi)

RECURSIVE Split(_, _)
\* s.split(sep), for a one-character sep
Split(s, sep) ==
    IF ~HasChar(s, sep) THEN <<s>>
    ELSE LET i == CHOOSE k \in 1..Len(s) :
                      s[k] = sep /\ \A j \in 1..(k-1) : s[j] # sep
         IN <<SubSeq(s, 1, i - 1)>> \o Split(SubSeq(s, i + 1, Len(s)), sep)

Whitespace == {" ", "\t"}

RECURSIVE LStrip(_)
LStrip(s) ==
    IF s # <<>> /\ Head(s) \in Whitespace THEN LStrip(Tail(s)) ELSE s

RECURSIVE RStrip(_)
RStrip(s) ==
    IF s # <<>> /\ s[Len(s)] \in Whitespace
    THEN RStrip(SubSeq(s, 1, Len(s) - 1)) ELSE s

\* str.strip()
Strip(s) == RStrip(LStrip(s))

\* a in b, for strings a and b: the substring test
InString(a, b) ==
    \E i \in 0..(Len(b) - Len(a)) : SubSeq(b, i + 1, i + Len(a)) = a

-----------------------------------------------------------------------------
(* extract_info_from_csvfilename *)

NoInfo == [maker |-> <<>>, model |-> <<>>, condition |-> <<>>]

\* lines 30-31: the directory and the extension are cut off only when the
\* name holds a '/'
BaseName(name) ==
    IF HasChar(name, "/")
    THEN Slice(name, RFind(name, "/") + 1, RFind(name, "."))
    ELSE name

\* line 32: maker, model, *_, condition = ... needs three items at least
Unpackable(name) == Len(Split(BaseName(name), "-")) >= 3

\* lines 32-36
extract_info_from_csvfilename(name) ==
    LET parts == Split(BaseName(name), "-")
    IN [maker |-> Upper(parts[1]),
        model |-> Upper(parts[2]),
        condition |-> Upper(parts[Len(parts)])]

-----------------------------------------------------------------------------
(* The files *)

FixedPath == "model_codes_carscom.csv"   \* dir_path joined with the fixed name
OtherPath == "other.csv"
Paths == {FixedPath, OtherPath}

Absent == [exists |-> FALSE, header |-> <<>>, rows |-> <<>>]

\* os.path.exists
os_path_exists(files, path) == files[path].exists

os_remove_kept(files, path) == files

\* os.remove, when it succeeds
os_remove(files, path) == [files EXCEPT ![path] = Absent]

\* line 158
csv_header == <<"maker", "model", "maker code", "model code">>

\* lines 83-87: open(csv_name, 'w'), writeheader, one writerow per row.  The
\* names written hold no delimiter, quote or line break, so each field is
\* read back as it was written.
written_file(header, rows) == [exists |-> TRUE, header |-> header, rows |-> rows]

-----------------------------------------------------------------------------
(* extract_maker_model_codes *)

model_name_unstripped(nm) ==
    LET s == Strip(nm) IN IF s[1] = "-" THEN Tail(s) ELSE s

\* lines 168-170, for a name whose stripped form is not empty
model_name(nm) ==
    LET s == Strip(nm) IN IF s[1] = "-" THEN Strip(Tail(s)) ELSE s

\* line 169: model_name[0] raises IndexError on the empty string
RaisesIndexError(nm) == Strip(nm) = <<>>

RECURSIVE Flatten(_)
\* the (maker, model) pairs in the order the two loops of lines 164-173
\* visit them
Flatten(d) ==
    IF d = <<>> THEN <<>>
    ELSE [j \in 1..Len(Head(d).md) |-> [mk |-> Head(d), md |-> Head(d).md[j]]]
         \o Flatten(Tail(d))

\* lines 165-173: the row appended for one pair
car_dict(p) ==
    [maker |-> Strip(p.mk.nm),
     maker_code |-> p.mk.id,
     model |-> model_name(p.md.nm),
     model_code |-> p.md.id]

\* the number of pairs visited before line 169 raises, all of them when it
\* never does
Visited(pairs) ==
    IF \E k \in 1..Len(pairs) : RaisesIndexError(pairs[k].md.nm)
    THEN (CHOOSE k \in 1..Len(pairs) :
              /\ RaisesIndexError(pairs[k].md.nm)
              /\ \A j \in 1..(k-1) : ~RaisesIndexError(pairs[j].md.nm)) - 1
    ELSE Len(pairs)

\* lines 158-173: the loops, up to the call of write_cars_to_csv
ExtractRows ==
    /\ pc = "extract"
    /\ LET pairs == Flatten(data)
           n == Visited(pairs)
       IN /\ csv_rows' = [k \in 1..n |-> car_dict(pairs[k])]
          /\ IF n < Len(pairs)
             THEN pc' = "error" /\ raised' = "IndexError"
             ELSE pc' = "remove" /\ raised' = raised
    /\ UNCHANGED <<exit_status, notice, data, csv_path, caller, fs, fs0>>
    /\ UNCHANGED fileVars
    /\ UNCHANGED quizVars

\* lines 76-82 of write_cars_to_csv: an existing file is removed; os.remove
\* succeeds or raises OSError
RemovePrevious ==
    /\ pc = "remove"
    /\ IF os_path_exists(fs, csv_path)
       THEN \/ /\ fs' = os_remove(fs, csv_path)
               /\ notice' = "delete previous"
               /\ pc' = "write"
               /\ exit_status' = exit_status
            \/ /\ fs' = fs
               /\ notice' = "error in deleting"
               /\ exit_status' = 1
               /\ pc' = "exit"
       ELSE /\ pc' = "write"
            /\ UNCHANGED <<fs, notice, exit_status>>
    /\ UNCHANGED <<raised, data, csv_path, csv_rows, caller, fs0>>
    /\ UNCHANGED fileVars
    /\ UNCHANGED quizVars

\* lines 83-91 of write_cars_to_csv, and the return of lines 174 and 104
WriteRows ==
    /\ pc = "write"
    /\ fs' = [fs EXCEPT ![csv_path] = written_file(csv_header, csv_rows)]
    /\ notice' = "Writing"
    /\ pc' = IF caller = "guess_car_brand" THEN "load" ELSE "built"
    /\ UNCHANGED <<raised, exit_status, data, csv_path, csv_rows, caller, fs0>>
    /\ UNCHANGED fileVars
    /\ UNCHANGED quizVars

-----------------------------------------------------------------------------
(* extract_info_from_csvfilename as a step *)

\* lines 30-36: the result, or the ValueError of the unpacking of line 32
ExtractInfo ==
    /\ pc = "parse"
    /\ IF Unpackable(csv_name)
       THEN /\ car_info' = extract_info_from_csvfilename(csv_name)
            /\ pc' = "parsed"
            /\ raised' = raised
       ELSE /\ car_info' = car_info
            /\ pc' = "error"
            /\ raised' = "ValueError"
    /\ UNCHANGED <<csv_name, exit_status, notice, data, csv_path, csv_rows,
                   caller, fs, fs0>>
    /\ UNCHANGED quizVars

-----------------------------------------------------------------------------
(* guess_car_brand *)

num_questions == 10
num_choices == 4

\* line 108: string.ascii_uppercase[:num_choices]
letters == SubSeq(UpperAlpha, 1, num_choices)

NoName == <<>>
EmptyPairs == [m \in {} |-> NoName]

RECURSIVE ScanBrands(_, _)
\* lines 114-115
ScanBrands(rows, acc) ==
    IF rows = <<>> THEN acc
    ELSE ScanBrands(Tail(rows), acc \cup {Head(rows).maker})

RECURSIVE ScanPairsKeepFirst(_, _)
ScanPairsKeepFirst(rows, acc) ==
    IF rows = <<>> THEN acc
    ELSE ScanPairsKeepFirst(Tail(rows),
                   [m \in DOMAIN acc \cup {Head(rows).model} |->
                       IF m \in DOMAIN acc THEN acc[m] ELSE Head(rows).maker])

RECURSIVE ScanPairs(_, _)
\* lines 114 and 116: a later row overwrites the entry of an earlier one
ScanPairs(rows, acc) ==
    IF rows = <<>> THEN acc
    ELSE ScanPairs(Tail(rows),
                   [m \in DOMAIN acc \cup {Head(rows).model} |->
                       IF m = Head(rows).model THEN Head(rows).maker ELSE acc[m]])

\* random.sample(population, k): k distinct members in any order; raises
\* ValueError when k exceeds the size of the population
random_sample(population, k) ==
    {s \in [1..k -> population] : \A i, j \in 1..k : i # j => s[i] # s[j]}

SampleFails(population, k) == k > Cardinality(population)

\* random.shuffle(x): any arrangement of the list
random_shuffle(x) ==
    {[i \in 1..Len(x) |-> x[p[i]]] : p \in Permutations(1..Len(x))}

\* line 129: OrderedDict(zip(letters, choices))
d_of(chs) == [l \in {<<letters[i]>> : i \in 1..Len(chs)} |->
                 chs[CHOOSE i \in 1..Len(chs) : <<letters[i]>> = l]]

\* line 137: user_choice in letters, the substring test on the string ABCD
LeavesLoop(u) == InString(u, letters)

ScoresAlways(u, chs, b) == TRUE

\* line 141
Scores(u, chs, b) == u \in DOMAIN d_of(chs) /\ d_of(chs)[u] = b

\* lines 101-104
StartQuiz ==
    /\ pc = "start"
    /\ data_file' = FixedPath
    /\ IF ~os_path_exists(fs, FixedPath)
       THEN /\ builder_calls' = builder_calls + 1
            /\ csv_path' = FixedPath
            /\ caller' = "guess_car_brand"
            /\ pc' = "extract"
       ELSE /\ pc' = "load"
            /\ UNCHANGED <<builder_calls, csv_path, caller>>
    /\ UNCHANGED <<raised, exit_status, notice, data, csv_rows, fs, fs0,
                   given_file, brands, model_brand_pairs, count, question_num,
                   num_correct, model, brand, choices, user_choice, hits>>
    /\ UNCHANGED fileVars

\* lines 105-119
Load ==
    /\ pc = "load"
    /\ num_correct' = 0
    /\ brands' = ScanBrands(fs[data_file].rows, {})
    /\ model_brand_pairs' = ScanPairs(fs[data_file].rows, EmptyPairs)
    /\ count' = num_questions
    /\ question_num' = 0
    /\ pc' = "round"
    /\ UNCHANGED <<raised, given_file, data_file, builder_calls, model, brand,
                   choices, user_choice, hits>>
    /\ UNCHANGED buildVars
    /\ UNCHANGED fileVars

\* lines 120-132: one pass from the loop test to the prompt.  random.choice
\* raises IndexError on an empty list, random.sample raises ValueError.
\* user_choice of the round before is dead at the prompt (line 135 assigns
\* it before any read), so it is reset when the choices are shown.
NewRound ==
    /\ pc = "round"
    /\ count > 0
    /\ count' = count - 1
    /\ IF DOMAIN model_brand_pairs = {}
       THEN /\ raised' = "IndexError"
            /\ pc' = "round_error"
            /\ UNCHANGED <<model, brand, question_num, choices>>
       ELSE \E m \in DOMAIN model_brand_pairs :
            /\ model' = m
            /\ brand' = model_brand_pairs[m]
            /\ question_num' = question_num + 1
            /\ IF SampleFails(brands, num_choices - 1)
               THEN /\ raised' = "ValueError"
                    /\ pc' = "round_error"
                    /\ choices' = choices
               ELSE /\ \E s \in random_sample(brands, num_choices - 1) :
                           choices' \in random_shuffle(Append(s, brand'))
                    /\ pc' = "input"
                    /\ raised' = raised
    /\ user_choice' = IF pc' = "input" THEN <<>> ELSE user_choice
    /\ UNCHANGED <<given_file, data_file, builder_calls, brands,
                   model_brand_pairs, num_correct, hits>>
    /\ UNCHANGED buildVars
    /\ UNCHANGED fileVars

\* the lines a user may type at the prompt
InputLines == {<<"a">>, <<"B">>, <<"c">>, <<"D">>, <<"Z">>, <<>>, <<"a","b">>}

\* lines 134-146: one input line.  A rejected line reprompts; an accepted one
\* is scored and the loop test of line 120 comes next.  model, brand and
\* choices are dead once the round is scored (the next round assigns them
\* before any read), so they are reset here.
ReadLine ==
    /\ pc = "input"
    /\ \E line \in InputLines :
          /\ user_choice' = Upper(line)
          /\ IF LeavesLoop(user_choice')
             THEN /\ num_correct' = IF Scores(user_choice', choices, brand)
                                    THEN num_correct + 1 ELSE num_correct
                  /\ hits' = IF \E i \in 1..num_choices :
                                    user_choice' = <<letters[i]>> /\ choices[i] = brand
                             THEN hits + 1 ELSE hits
                  /\ model' = NoName
                  /\ brand' = NoName
                  /\ choices' = <<>>
                  /\ pc' = "round"
             ELSE /\ pc' = "input"
                  /\ UNCHANGED <<num_correct, hits, model, brand, choices>>
    /\ UNCHANGED <<raised, given_file, data_file, builder_calls, brands,
                   model_brand_pairs, count, question_num>>
    /\ UNCHANGED buildVars
    /\ UNCHANGED fileVars

\* lines 120 and 147: the loop ends and the score is printed
Finish ==
    /\ pc = "round"
    /\ count = 0
    /\ pc' = "done"
    /\ UNCHANGED <<raised, given_file, data_file, builder_calls, brands,
                   model_brand_pairs, count, question_num, num_correct, model,
                   brand, choices, user_choice, hits>>
    /\ UNCHANGED buildVars
    /\ UNCHANGED fileVars

-----------------------------------------------------------------------------
(* Inputs *)

MaxSegs == 4        \* hyphen-separated segments of a filename
MaxMakers == 2      \* makers of a nested dataset
MaxRows == 2        \* models of a nested dataset, over all its makers
MaxStoreRows == 3   \* rows of a store with repeated model names
MaxBrands == 4      \* makers of a store with one model per maker

Words == {<<"h","o","n","d","a">>, <<"a","c","c","o","r","d">>,
          <<"2","0","1","9">>, <<"u","s","e","d">>}
Dirs == {<<>>, <<"d","/">>, <<".","/","d","/">>}
Exts == {<<>>, <<".","c","s","v">>}
SegLists == UNION {[1..n -> Words] : n \in 1..MaxSegs}

RECURSIVE Join(_)
Join(segs) ==
    IF Len(segs) = 1 THEN segs[1]
    ELSE segs[1] \o <<"-">> \o Join(Tail(segs))

FileName(dir, segs, ext) == dir \o Join(segs) \o ext

FileNames == {FileName(dir, segs, ext) : dir \in Dirs, segs \in SegLists, ext \in Exts}

\* maker and model entries as the nested dataset holds them: nm and id
MakerEntries == {[nm |-> <<" ","A">>, id |-> "20001"],
                 [nm |-> <<"B"," ">>, id |-> "20005"]}
ModelEntries == {[nm |-> <<>>, id |-> "m0"],
                 [nm |-> <<" ","T","L"," ">>, id |-> "m1"],
                 [nm |-> <<"-"," ","S">>, id |-> "m2"],
                 [nm |-> <<"-","-","R">>, id |-> "m3"],
                 [nm |-> <<"X","-","5">>, id |-> "m1"],
                 [nm |-> <<"\t","-","\t","Q"," ">>, id |-> "m4"]}

MakersWith(j) ==
    {[nm |-> e.nm, id |-> e.id, md |-> l] :
        e \in MakerEntries, l \in [1..j -> ModelEntries]}

RECURSIVE DataSetsOf(_, _)
\* the datasets of k makers with r models at most
DataSetsOf(k, r) ==
    IF k = 0 THEN {<<>>}
    ELSE UNION {{<<mk>> \o rest : mk \in MakersWith(j), rest \in DataSetsOf(k - 1, r - j)} :
                   j \in 0..r}

DataSets == UNION {DataSetsOf(k, MaxRows) : k \in 0..MaxMakers}

StoreRow(mk, md) == [maker |-> mk, maker_code |-> "c", model |-> md, model_code |-> "c"]

\* a store of n makers A, B, ... with one model each
BrandStore(n) == [i \in 1..n |-> StoreRow(<<UpperAlpha[i]>>, <<LowerAlpha[i]>>)]

\* stores in which a model name may repeat, under the same or another maker
RepeatRows == {StoreRow(mk, md) : mk \in {<<"A">>, <<"B">>}, md \in {<<"a">>, <<"b">>}}
RepeatStores == UNION {[1..n -> RepeatRows] : n \in 0..MaxStoreRows}

StoreFile(rows) == written_file(csv_header, rows)

\* a file left by an earlier run
OldFiles == {StoreFile(<<StoreRow(<<"O","L","D">>, <<"o","l","d">>)>>)}

InitCommon ==
    /\ raised = ""
    /\ exit_status = -1
    /\ notice = ""
    /\ car_info = NoInfo
    /\ csv_rows = <<>>
    /\ builder_calls = 0
    /\ brands = {}
    /\ model_brand_pairs = EmptyPairs
    /\ count = 0
    /\ question_num = 0
    /\ num_correct = 0
    /\ model = NoName
    /\ brand = NoName
    /\ choices = <<>>
    /\ user_choice = <<>>
    /\ hits = 0

\* extract_info_from_csvfilename is called with a filename
InitFile ==
    /\ pc = "parse"
    /\ InitCommon
    /\ csv_name \in FileNames
    /\ data = <<>>
    /\ csv_path = FixedPath
    /\ caller = "main"
    /\ fs = [p \in Paths |-> Absent]
    /\ fs0 = fs
    /\ given_file = FixedPath
    /\ data_file = FixedPath

\* extract_maker_model_codes is called with a destination
InitBuild ==
    /\ pc = "extract"
    /\ InitCommon
    /\ csv_name = <<>>
    /\ data \in DataSets
    /\ csv_path = FixedPath
    /\ caller = "main"
    /\ \E old \in {Absent} \cup OldFiles :
           fs = [p \in Paths |-> IF p = FixedPath THEN old ELSE Absent]
    /\ fs0 = fs
    /\ given_file = FixedPath
    /\ data_file = FixedPath

\* guess_car_brand is called; the store exists
InitQuizStore ==
    /\ data = <<>>
    /\ given_file = FixedPath
    /\ \E rows \in {BrandStore(n) : n \in 0..MaxBrands} \cup RepeatStores :
           fs = [p \in Paths |-> IF p = FixedPath THEN StoreFile(rows) ELSE Absent]

\* guess_car_brand is called with either path, each present or absent
InitQuizPaths ==
    /\ given_file \in Paths
    /\ \E fixed \in {Absent, StoreFile(BrandStore(2))},
          other \in {Absent, StoreFile(BrandStore(1))} :
           /\ fs = [p \in Paths |-> IF p = FixedPath THEN fixed ELSE other]
           /\ IF fixed.exists THEN data = <<>>
              ELSE data \in UNION {DataSetsOf(k, MaxRows) : k \in 0..1}

InitQuiz ==
    /\ pc = "start"
    /\ InitCommon
    /\ csv_name = <<>>
    /\ csv_path = FixedPath
    /\ caller = "main"
    /\ (InitQuizStore \/ InitQuizPaths)
    /\ fs0 = fs
    /\ data_file = given_file

NextFile == ExtractInfo
NextBuild == ExtractRows \/ RemovePrevious \/ WriteRows
NextQuiz ==
    \/ StartQuiz
    \/ ExtractRows
    \/ RemovePrevious
    \/ WriteRows
    \/ Load
    \/ NewRound
    \/ ReadLine
    \/ Finish

SpecFile == InitFile /\ [][NextFile]_vars
SpecBuild == InitBuild /\ [][NextBuild]_vars
SpecQuiz == InitQuiz /\ [][NextQuiz]_vars

-----------------------------------------------------------------------------
(* Properties of extract_info_from_csvfilename *)

\* C4: for a filename of three or more hyphen-separated segments with a file
\* extension, with or without a directory prefix, the result is the
\* upper-cased first, second and last segment, the extension left out of the
\* condition (honda-accord-2019-used.csv gives HONDA, ACCORD, USED).
C4_ParsesSegments ==
    \A dir \in Dirs, segs \in SegLists, ext \in Exts :
        (pc # "parse" /\ Len(segs) >= 3 /\ ext # <<>>
            /\ csv_name = FileName(dir, segs, ext))
        => /\ pc = "parsed"
           /\ car_info = [maker |-> Upper(segs[1]),
                          model |-> Upper(segs[2]),
                          condition |-> Upper(segs[Len(segs)])]

-----------------------------------------------------------------------------
(* Properties of extract_maker_model_codes and write_cars_to_csv *)

\* the loops of extract_maker_model_codes have run
Extracted == pc \in {"error", "remove", "write", "exit", "built"}

RECURSIVE ModelsBefore(_, _)
\* the number of models of the makers before maker i
ModelsBefore(d, i) ==
    IF i <= 1 THEN 0 ELSE ModelsBefore(d, i - 1) + Len(d[i - 1].md)

\* the row of model j of maker i, in source order
RowIndex(d, i, j) == ModelsBefore(d, i) + j

\* t is s without its leading and trailing whitespace
Trimmed(s, t) ==
    \E i \in 1..(Len(s) + 1), j \in 0..Len(s) :
        /\ i <= j + 1
        /\ t = SubSeq(s, i, j)
        /\ \A k \in 1..(i - 1) : s[k] \in Whitespace
        /\ \A k \in (j + 1)..Len(s) : s[k] \in Whitespace
        /\ t # <<>> => t[1] \notin Whitespace /\ t[Len(t)] \notin Whitespace

\* t is s without its leading whitespace
LeftTrimmed(s, t) ==
    \E i \in 1..(Len(s) + 1) :
        /\ t = SubSeq(s, i, Len(s))
        /\ \A k \in 1..(i - 1) : s[k] \in Whitespace
        /\ t # <<>> => t[1] \notin Whitespace

\* the trimmed forms a name can have (one, by Trimmed)
Pieces(s) == {SubSeq(s, i, j) : i \in 1..(Len(s) + 1), j \in 0..Len(s)}

\* C5: for every dataset, names that are empty included, the loops complete
\* and give one row per (maker, model) pair, in source order, each row with
\* its maker's name and code and its model's code.
C5_OneRowPerPair ==
    Extracted =>
        /\ raised = ""
        /\ Len(csv_rows) = ModelsBefore(data, Len(data) + 1)
        /\ \A i \in 1..Len(data) : \A j \in 1..Len(data[i].md) :
              LET row == csv_rows[RowIndex(data, i, j)]
              IN /\ Trimmed(data[i].nm, row.maker)
                 /\ row.maker_code = data[i].id
                 /\ row.model_code = data[i].md[j].id

\* out is name trimmed, less one leading hyphen and the whitespace after it
OneHyphenRemoved(name, out) ==
    \E t \in Pieces(name) :
        /\ Trimmed(name, t)
        /\ IF t # <<>> /\ t[1] = "-" THEN LeftTrimmed(Tail(t), out) ELSE out = t

\* C6 (amended): in the rows produced, a model name whose trimmed form begins
\* with a hyphen has that one hyphen and the whitespace after it removed, any
\* other name is only trimmed; so no output name has leading whitespace (a
\* leading hyphen can remain, as for --R).
C6_HyphenStrippedOnce ==
    (Extracted /\ raised = "") =>
        \A i \in 1..Len(data) : \A j \in 1..Len(data[i].md) :
            LET out == csv_rows[RowIndex(data, i, j)].model
            IN /\ OneHyphenRemoved(data[i].md[j].nm, out)
               /\ out # <<>> => out[1] \notin Whitespace

\* C6 as claimed: ... so no output name has leading whitespace or a leading
\* hyphen.
C6_NoLeadingHyphen ==
    (Extracted /\ raised = "") =>
        \A i \in 1..Len(data) : \A j \in 1..Len(data[i].md) :
            LET out == csv_rows[RowIndex(data, i, j)].model
            IN /\ OneHyphenRemoved(data[i].md[j].nm, out)
               /\ out # <<>> => out[1] \notin Whitespace /\ out[1] # "-"

\* rows were produced from a name with a hyphen and whitespace after it
C6_Witness ==
    /\ pc = "built"
    /\ \E i \in 1..Len(data) : \E j \in 1..Len(data[i].md) :
          /\ data[i].md[j].nm = <<"\t","-","\t","Q"," ">>
          /\ csv_rows[RowIndex(data, i, j)].model = <<"Q">>

\* C8: an existing destination is removed before anything is written, a
\* finished write leaves the header and the new rows only, and a failed
\* removal exits with status 1 after the error notice, the files as they were.
C8_OldFileRemovedFirst ==
    /\ pc = "write" => ~fs[csv_path].exists
    /\ pc = "built" =>
          /\ fs[csv_path] = [exists |-> TRUE, header |-> csv_header, rows |-> csv_rows]
          /\ exit_status = -1
    /\ pc = "exit" =>
          /\ exit_status = 1
          /\ notice = "error in deleting"
          /\ fs = fs0
    /\ exit_status = 1 => pc = "exit" /\ fs0[csv_path].exists

\* a destination that existed was rewritten
C8_Witness ==
    /\ pc = "built"
    /\ fs0[csv_path].exists
    /\ fs[csv_path] # fs0[csv_path]

-----------------------------------------------------------------------------
(* Properties of guess_car_brand *)

\* the store has been loaded
Loaded == pc \in {"round", "input", "round_error", "done"}

\* C1: with four makers or more, the choices offered in a round are four
\* pairwise distinct brands, the round's brand among them (the three sampled
\* brands are distinct, so they hold the round's brand exactly when it is
\* offered twice).
C1_OfferedChoicesDistinct ==
    (pc = "input" /\ Cardinality(brands) >= num_choices) =>
        /\ Len(choices) = num_choices
        /\ \E i \in 1..Len(choices) : choices[i] = brand
        /\ \A i, j \in 1..Len(choices) : i # j => choices[i] # choices[j]

\* C2: a line whose upper-cased form is not one of the letters A, B, C, D is
\* rejected: the prompt stays and question_num, count and num_correct keep
\* their values.
C2_OnlyLettersLeaveLoop ==
    [][(pc = "input" /\ user_choice' \notin {<<letters[i]>> : i \in 1..num_choices})
        => (pc' = "input" /\ UNCHANGED <<question_num, count, num_correct>>)]_vars

\* C3: num_correct is the number of rounds whose chosen letter mapped to the
\* round's brand, 0 <= num_correct <= question_num <= 10 throughout, and the
\* score is printed after exactly 10 rounds.
C3_ScoreCountsCorrectRounds ==
    /\ num_correct = hits
    /\ 0 <= num_correct
    /\ num_correct <= question_num
    /\ question_num <= num_questions
    /\ pc = "done" => question_num = num_questions /\ count = 0
    /\ Loaded => count + question_num \in {num_questions, num_questions - 1}

\* a session answered correctly in every round
C3_Witness == pc = "done" /\ num_correct = num_questions

\* C7: with fewer than four makers the first round fails before any choices
\* are shown or any input is read.
C7_FewBrandsFail ==
    (Loaded /\ Cardinality(brands) < num_choices) =>
        /\ pc \in {"round", "round_error"}
        /\ pc = "round" => question_num = 0
        /\ pc = "round_error" => question_num <= 1

\* C9: once the store is loaded: was there no file at the path given, the
\* builder ran once and the store at that path was loaded; was there one,
\* the builder did not run and the files are as they were.
C9_UsesGivenPath ==
    Loaded =>
        IF ~fs0[given_file].exists
        THEN /\ builder_calls = 1
             /\ fs[given_file].exists
             /\ brands = {fs[given_file].rows[i].maker :
                             i \in 1..Len(fs[given_file].rows)}
        ELSE /\ builder_calls = 0
             /\ fs = fs0

\* C10: after the scan, brands is the set of the makers of the rows,
\* model_brand_pairs maps each model of the rows to the maker of the last row
\* with that model, and the brand of a round is a member of brands.
C10_IndexIsLastWriteWins ==
    Loaded =>
        LET rows == fs[data_file].rows
        IN /\ brands = {rows[i].maker : i \in 1..Len(rows)}
           /\ DOMAIN model_brand_pairs = {rows[i].model : i \in 1..Len(rows)}
           /\ \A i \in 1..Len(rows) :
                 (\A j \in (i + 1)..Len(rows) : rows[j].model # rows[i].model)
                 => model_brand_pairs[rows[i].model] = rows[i].maker
           /\ brand # NoName => brand \in brands

\* a model name under two makers, and a round's brand chosen
C10_Witness ==
    /\ Loaded
    /\ brand # NoName
    /\ LET rows == fs[data_file].rows
       IN \E i, j \in 1..Len(rows) :
             /\ i < j
             /\ rows[i].model = rows[j].model
             /\ rows[i].maker # rows[j].maker

====
